---- MODULE Spec2Model ----
(***************************************************************************)
(* TeeTime AI Backend - tee sheet v1 (src/main.py).                        *)
(*                                                                         *)
(* A datetime is modelled as [date, minute]: the calendar day as a day     *)
(* ordinal and the time of day in minutes since midnight.  The ledger      *)
(* BOOKINGS is a Python dict keyed by booking_id; it is modelled as the    *)
(* sequence of its values in the dict's iteration (insertion) order, each  *)
(* value carrying its key in booking_id.                                   *)
(***************************************************************************)
EXTENDS Integers, Sequences, FiniteSets, TLC

VARIABLES BOOKINGS,   \* the ledger (main.py:59)
          op,         \* the handler the last request ran
          req,        \* the arguments of the last request
          resp,       \* what the last request returned or raised
          pre,        \* the ledger as it was when the last request started
          successes,  \* number of create_booking calls that returned a booking
          gen,        \* the slot generator's call under SpecGen
          threads     \* the create_booking calls in progress under SpecConc

vars == <<BOOKINGS, op, req, resp, pre, successes, gen, threads>>

----------------------------------------------------------------------------
(* Bounds *)

MaxBookings == 3

NumWorkers == 2

----------------------------------------------------------------------------
(* Course setup *)

MAX_PLAYERS_PER_TEE == 4

MinutesPerDay == 1440

\* date.max, 9999-12-31, as a day ordinal that counts 2025-12-21 as day 1
DateMax == 2912454

Course(id, name, first_time, last_time, interval_minutes) ==
    [id |-> id, name |-> name, first_time |-> first_time,
     last_time |-> last_time, interval_minutes |-> interval_minutes]

COURSES ==
    [c \in {"sterling_hills"} |->
        Course("sterling_hills", "Sterling Hills Golf Club", 7 * 60, 17 * 60, 8)]

----------------------------------------------------------------------------
(* datetime *)

\* datetime.combine(d, t)
combine(d, t) == [date |-> d, minute |-> t]

\* what a call that raised leaves instead of a value
Raises(exception) == [raised |-> exception]

\* what a call that returned leaves
Returns(value) == [raised |-> "", value |-> value]

IsRaise(x) == "raised" \in DOMAIN x

\* datetime + timedelta(minutes = m), m >= 0: a datetime, or OverflowError
\* ("date value out of range") when the sum lies after date.max
dt_add(dt, m) ==
    LET d == dt.date + ((dt.minute + m) \div MinutesPerDay)
    IN  IF d > DateMax
        THEN Raises("OverflowError")
        ELSE [date |-> d, minute |-> (dt.minute + m) % MinutesPerDay]

\* datetime <= datetime
dt_le(a, b) == \/ a.date < b.date
               \/ a.date = b.date /\ a.minute <= b.minute

\* datetime < datetime
dt_lt(a, b) == dt_le(a, b) /\ a # b

\* datetime.hour
hour(dt) == dt.minute \div 60

----------------------------------------------------------------------------
(* Helper to build tee sheet *)

\* the loop condition of _generate_slots_for_date
slot_loop_cond(current, last_dt) == dt_le(current, last_dt)

\* the while loop of main.py:89-91 and the return of main.py:93.  current is
\* what current += step (or the first assignment) left: a datetime, or the
\* OverflowError that leaves the function with nothing returned.
\* (Len(slots) >= 0 only makes TLC evaluate the list built so far at every
\* iteration)
RECURSIVE slot_loop(_, _, _, _)
slot_loop(slots, current, last_dt, step) ==
    IF Len(slots) >= 0 /\ ~ IsRaise(current) /\ slot_loop_cond(current, last_dt)
    THEN slot_loop(Append(slots, current), dt_add(current, step), last_dt, step)
    ELSE IF IsRaise(current) THEN current ELSE Returns(slots)

_generate_slots_seeded(course, d) ==
    slot_loop(<<combine(d, course.first_time)>>,
              dt_add(combine(d, course.first_time), course.interval_minutes),
              combine(d, course.last_time), course.interval_minutes)

_generate_slots_for_date(course, d) ==
    slot_loop(<<>>, combine(d, course.first_time), combine(d, course.last_time),
              course.interval_minutes)

----------------------------------------------------------------------------
(* Booking ledger *)

DigitChars == <<"0", "1", "2", "3", "4", "5", "6", "7", "8", "9">>

\* str(n) for n >= 0
RECURSIVE int_str(_)
int_str(n) == IF n < 10 THEN DigitChars[n + 1]
              ELSE int_str(n \div 10) \o DigitChars[(n % 10) + 1]

\* f"BOOK-{len(BOOKINGS) + 1}"
new_booking_id_reuse(ledger) == "BOOK-" \o int_str(Len(ledger))

new_booking_id_fixed(ledger) ==
    "BOOK-" \o int_str(Cardinality(DOMAIN COURSES) + 1)

new_booking_id(ledger) == "BOOK-" \o int_str(Len(ledger) + 1)

\* a Booking whose date_time is moved back onto the course's interval grid
Booking_snapped(booking_id, r) ==
    LET c == COURSES[r.course_id]
        k == (r.date_time.minute - c.first_time) \div c.interval_minutes
    IN  [booking_id |-> booking_id, course_id |-> r.course_id,
         date_time |-> combine(r.date_time.date,
                               c.first_time + k * c.interval_minutes),
         players |-> r.players, holes |-> r.holes,
         walk_ride |-> r.walk_ride, name |-> r.name, phone |-> r.phone]

\* Booking(booking_id=booking_id, **req.model_dump())
Booking(booking_id, r) ==
    [booking_id |-> booking_id, course_id |-> r.course_id,
     date_time |-> r.date_time, players |-> r.players, holes |-> r.holes,
     walk_ride |-> r.walk_ride, name |-> r.name, phone |-> r.phone]

\* d[key] = value on a dict: an existing key keeps its place and gets the
\* new value, a new key goes last
dict_set_append(ledger, key, value) == Append(ledger, value)

dict_set(ledger, key, value) ==
    IF \E i \in 1..Len(ledger) : ledger[i].booking_id = key
    THEN [i \in 1..Len(ledger) |->
             IF ledger[i].booking_id = key THEN value ELSE ledger[i]]
    ELSE Append(ledger, value)

\* the match of one stored booking against the request, main.py:158
same_tee_time(b, r) == b.course_id = r.course_id /\ b.date_time = r.date_time

\* main.py:158-159: what one stored booking adds to current_players
players_at_count(b, r) == IF same_tee_time(b, r) THEN 1 ELSE 0

players_at(b, r) == IF same_tee_time(b, r) THEN b.players ELSE 0

\* the loop of main.py:156-159 over the first n values of the ledger
RECURSIVE current_players(_, _, _)
current_players(ledger, r, n) ==
    IF n = 0 THEN 0
    ELSE current_players(ledger, r, n - 1) + players_at(ledger[n], r)

\* main.py:162
exceeds_capacity_off_by_one(current, players) ==
    current + players > MAX_PLAYERS_PER_TEE + 1

exceeds_capacity_ignores_request(current, players) ==
    current > MAX_PLAYERS_PER_TEE

exceeds_capacity_full(current, players) ==
    current + players >= MAX_PLAYERS_PER_TEE

exceeds_capacity(current, players) == current + players > MAX_PLAYERS_PER_TEE

\* main.py:110 and main.py:152
known_course_always(course_id) == TRUE

known_course(course_id) == course_id \in DOMAIN COURSES

HTTPException(status_code, detail) ==
    [raised |-> "HTTPException", status |-> status_code, detail |-> detail,
     body |-> <<>>]

NameError(name) ==
    [raised |-> "NameError", status |-> 500, detail |-> name, body |-> <<>>]

Returned(body) == [raised |-> "", status |-> 200, detail |-> "", body |-> body]

\* POST /booking: the response and the ledger the call leaves
create_booking(ledger, r) ==
    IF ~ known_course(r.course_id)
    THEN [resp |-> HTTPException(404, "Unknown course_id"), ledger |-> ledger]
    ELSE IF exceeds_capacity(current_players(ledger, r, Len(ledger)), r.players)
    THEN [resp |-> HTTPException(400,
                     "That tee time is full. Please choose another time."),
          ledger |-> ledger]
    ELSE LET booking == Booking(new_booking_id(ledger), r)
         IN  [resp |-> Returned(<<booking>>),
              ledger |-> dict_set(ledger, booking.booking_id, booking)]

\* the names main.py binds at module level (imports, assignments, classes
\* and functions); a name a function body reads without binding it itself is
\* looked up here
ModuleNames ==
    {"MAX_PLAYERS_PER_TEE", "FastAPI", "HTTPException", "CORSMiddleware",
     "BaseModel", "Field", "Dict", "List", "datetime", "date", "time",
     "timedelta", "app", "Course", "COURSES", "Booking", "BOOKINGS",
     "CreateBookingRequest", "AvailabilityResponse", "_generate_slots_for_date",
     "get_availability", "create_booking", "list_bookings"}

\* the value a module-level name is bound to, for the names that hold data
module_value(name) ==
    CASE name = "MAX_PLAYERS_PER_TEE" -> MAX_PLAYERS_PER_TEE
      [] name = "COURSES" -> COURSES

\* main.py:116-119: players already booked per tee time of that course and date
RECURSIVE players_by_time(_, _, _, _)
players_by_time(ledger, course_id, date, n) ==
    IF n = 0 THEN [dt \in {} |-> 0]
    ELSE LET acc == players_by_time(ledger, course_id, date, n - 1)
             b   == ledger[n]
         IN  IF b.course_id = course_id /\ b.date_time.date = date
             THEN [dt \in DOMAIN acc \cup {b.date_time} |->
                      IF dt = b.date_time
                      THEN (IF dt \in DOMAIN acc THEN acc[dt] ELSE 0) + b.players
                      ELSE acc[dt]]
             ELSE acc

\* main.py:122-126: the tee times where this group still fits
fits(by_time, dt, players) ==
    (IF dt \in DOMAIN by_time THEN by_time[dt] ELSE 0) + players
        <= MAX_PLAYERS_PER_TEE

\* main.py:128-143: the time-window filter and the response
window_filter(available, course_id, date, time_window) ==
    LET ok(times) == Returned(<<[course_id |-> course_id, date |-> date,
                                 available_times |-> times]>>)
    IN  IF time_window # "all"
        THEN IF time_window = "morning"
             THEN ok(SelectSeq(available, LAMBDA dt : hour(dt) < 12))
             ELSE IF time_window = "afternoon"
             THEN ok(SelectSeq(available,
                               LAMBDA dt : 12 <= hour(dt) /\ hour(dt) < 17))
             ELSE IF time_window = "evening"
             THEN ok(SelectSeq(available, LAMBDA dt : hour(dt) >= 17))
             ELSE HTTPException(400, "Invalid time_window")
        ELSE ok(available)

\* GET /availability.  main.py:123 iterates over all_slots, a name the
\* function never binds, so it is read from the module's names
get_availability(ledger, course_id, date, time_window, players) ==
    IF ~ known_course(course_id)
    THEN HTTPException(404, "Unknown course_id")
    ELSE LET by_time == players_by_time(ledger, course_id, date, Len(ledger))
         IN  IF "all_slots" \notin ModuleNames
             THEN NameError("all_slots")
             ELSE LET all_slots == module_value("all_slots")
                      available ==
                          SelectSeq(all_slots,
                                    LAMBDA dt : fits(by_time, dt, players))
                  IN  window_filter(available, course_id, date, time_window)

\* GET /bookings
list_bookings_unfiltered(ledger, course_id) == ledger

list_bookings(ledger, course_id) ==
    IF course_id # ""
    THEN SelectSeq(ledger, LAMBDA b : b.course_id = course_id)
    ELSE ledger

----------------------------------------------------------------------------
(* Requests *)

CourseIds == {"sterling_hills", "unknown"}

Dates == {1, 2}

TimeWindows == {"all", "morning", "afternoon", "evening", "night"}

ValidTimeWindows == {"all", "morning", "afternoon", "evening"}

\* players: int = Field(gt=0, le=4)
Players == 1..MAX_PLAYERS_PER_TEE

ReqDateTimes ==
    {combine(1, 7 * 60), combine(1, 7 * 60 + 8)}

CreateBookingRequest(course_id, date_time, players) ==
    [course_id |-> course_id, date_time |-> date_time, players |-> players,
     holes |-> 18, walk_ride |-> "riding", name |-> "Raj Hundal",
     phone |-> "+18057960471"]

NoGen == [pc |-> "idle"]

\* the request workers of the thread pool that runs the handlers
Workers == 1..NumWorkers

Idle == [pc |-> "idle"]

NoThreads == [w \in Workers |-> Idle]

Init ==
    /\ BOOKINGS = <<>>
    /\ op = "start"
    /\ req = <<>>
    /\ resp = Returned(<<>>)
    /\ pre = <<>>
    /\ successes = 0
    /\ gen = NoGen
    /\ threads = NoThreads

CreateBooking ==
    \E c \in CourseIds, dt \in ReqDateTimes, p \in Players :
        LET r   == CreateBookingRequest(c, dt, p)
            out == create_booking(BOOKINGS, r)
        IN  /\ Len(out.ledger) <= MaxBookings
            /\ op' = "create_booking"
            /\ req' = r
            /\ resp' = out.resp
            /\ pre' = BOOKINGS
            /\ BOOKINGS' = out.ledger
            /\ successes' = successes + (IF out.resp.status = 200 THEN 1 ELSE 0)
            /\ UNCHANGED <<gen, threads>>

GetAvailability ==
    \E c \in CourseIds, d \in Dates, w \in TimeWindows, p \in Players :
        /\ op' = "get_availability"
        /\ req' = [course_id |-> c, date |-> d, time_window |-> w, players |-> p]
        /\ resp' = get_availability(BOOKINGS, c, d, w, p)
        /\ pre' = BOOKINGS
        /\ UNCHANGED <<BOOKINGS, successes, gen, threads>>

ListBookings_destructive ==
    \E c \in CourseIds \cup {""} :
        /\ op' = "list_bookings"
        /\ req' = [course_id |-> c]
        /\ resp' = Returned(list_bookings(BOOKINGS, c))
        /\ pre' = BOOKINGS
        /\ BOOKINGS' = list_bookings(BOOKINGS, c)
        /\ UNCHANGED <<successes, gen, threads>>

ListBookings ==
    \E c \in CourseIds \cup {""} :
        /\ op' = "list_bookings"
        /\ req' = [course_id |-> c]
        /\ resp' = Returned(list_bookings(BOOKINGS, c))
        /\ pre' = BOOKINGS
        /\ UNCHANGED <<BOOKINGS, successes, gen, threads>>

\* one call of _generate_slots_for_date on a course and a date
GenerateSlots ==
    /\ gen.pc = "call"
    /\ LET out == _generate_slots_for_date(gen.course, gen.date)
       IN  gen' = [gen EXCEPT !.pc = "done",
                              !.raised = out.raised,
                              !.slots = IF out.raised # ""
                                        THEN <<>> ELSE out.value]
    /\ UNCHANGED <<BOOKINGS, op, req, resp, pre, successes, threads>>

Next == CreateBooking \/ GetAvailability \/ ListBookings

Spec == Init /\ [][Next]_vars

\* The slot generator on its own, over courses other than the configured one
GenTimes == {6 * 60 + 56, 7 * 60, 7 * 60 + 8, 16 * 60 + 57, 17 * 60, 23 * 60 + 59}

GenIntervals == {7, 8, 60, 600, 1440}

GenCourses ==
    {Course("c", "C", f, l, i) : f \in GenTimes, l \in GenTimes, i \in GenIntervals}
        \cup {COURSES[c] : c \in DOMAIN COURSES}

\* dates of the generator's calls, the last date there is among them
GenDates == Dates \cup {DateMax}

InitGen ==
    /\ BOOKINGS = <<>>
    /\ op = "start"
    /\ req = <<>>
    /\ resp = Returned(<<>>)
    /\ pre = <<>>
    /\ successes = 0
    /\ threads = NoThreads
    /\ \E c \in GenCourses, d \in GenDates :
           gen = [pc |-> "call", course |-> c, date |-> d, raised |-> "",
                  slots |-> <<>>]

NextGen == GenerateSlots

SpecGen == InitGen /\ [][NextGen]_vars

\* create_booking alone, on date_times the request model admits: a slot, a
\* time between two slots (07:03) and a time after closing (17:08)
AnyDateTimes ==
    {combine(1, 7 * 60), combine(1, 7 * 60 + 3), combine(1, 17 * 60 + 8)}

CreateBookingAny ==
    \E c \in CourseIds, dt \in AnyDateTimes, p \in Players :
        LET r   == CreateBookingRequest(c, dt, p)
            out == create_booking(BOOKINGS, r)
        IN  /\ Len(out.ledger) <= MaxBookings
            /\ op' = "create_booking"
            /\ req' = r
            /\ resp' = out.resp
            /\ pre' = BOOKINGS
            /\ BOOKINGS' = out.ledger
            /\ successes' = successes + (IF out.resp.status = 200 THEN 1 ELSE 0)
            /\ UNCHANGED <<gen, threads>>

NextBook == CreateBookingAny

SpecBook == Init /\ [][NextBook]_vars


\* players stored in a ledger for one course at one exact datetime
RECURSIVE StoredPlayers(_, _, _)
StoredPlayers(ledger, c, dt) ==
    IF ledger = <<>> THEN 0
    ELSE (IF Head(ledger).course_id = c /\ Head(ledger).date_time = dt
          THEN Head(ledger).players ELSE 0)
         + StoredPlayers(Tail(ledger), c, dt)

\* create_booking run by several workers at once, without a lock: the
\* start of a call (main.py:152-157), each step of its loop over the ledger
\* (main.py:157-166), the id computation (main.py:168) and the insert
\* (main.py:170-176) are separate steps, and steps of other calls may run
\* between them.  Each worker serves one request.
Finished(r, response, raced, id_raced) ==
    [pc |-> "done", req |-> r, resp |-> response, raced |-> raced,
     id_raced |-> id_raced]

RuntimeError(message) ==
    [raised |-> "RuntimeError", status |-> 500, detail |-> message,
     body |-> <<>>]

\* main.py:157-166: one turn of the for statement for a call in state t.
\* The values iterator raises RuntimeError when the dict's size is no longer
\* the one it remembers; otherwise it yields the next value, whose players
\* are added when it is of the same tee time, or it is exhausted and the
\* capacity test of main.py:162 follows.
loop_next(t, ledger) ==
    IF Len(ledger) # t.iter_used
    THEN Finished(t.req,
                  RuntimeError("dictionary changed size during iteration"),
                  FALSE, FALSE)
    ELSE IF t.iter_pos < Len(ledger)
    THEN LET b == ledger[t.iter_pos + 1]
         IN  [t EXCEPT !.iter_pos = t.iter_pos + 1,
                       !.current_players =
                           t.current_players + players_at(b, t.req)]
    ELSE IF exceeds_capacity(t.current_players, t.req.players)
    THEN Finished(t.req, HTTPException(400,
             "That tee time is full. Please choose another time."),
             FALSE, FALSE)
    ELSE [pc |-> "checked", req |-> t.req,
          current_players |-> t.current_players, found |-> t.found]

\* main.py:152-157: the course test, current_players = 0, and the for
\* statement reached for the first time: it makes the iterator of
\* BOOKINGS.values(), which remembers the size the dict has now, and takes
\* its first turn at once
StartCall(w) ==
    /\ threads[w].pc = "idle"
    /\ \E c \in CourseIds, dt \in ReqDateTimes, p \in Players :
          LET r == CreateBookingRequest(c, dt, p)
          IN  threads' = [threads EXCEPT ![w] =
                 IF ~ known_course(c)
                 THEN Finished(r, HTTPException(404, "Unknown course_id"),
                               FALSE, FALSE)
                 ELSE loop_next([pc |-> "summing", req |-> r,
                                 current_players |-> 0,
                                 iter_used |-> Len(BOOKINGS), iter_pos |-> 0,
                                 found |-> StoredPlayers(BOOKINGS, c, dt)],
                                BOOKINGS)]
    /\ UNCHANGED <<BOOKINGS, op, req, resp, pre, successes, gen>>

\* main.py:157-166: a later turn of the for statement, after other calls
\* may have run
SumNext(w) ==
    /\ threads[w].pc = "summing"
    /\ threads' = [threads EXCEPT ![w] = loop_next(threads[w], BOOKINGS)]
    /\ UNCHANGED <<BOOKINGS, op, req, resp, pre, successes, gen>>

\* main.py:168: booking_id = f"BOOK-{len(BOOKINGS) + 1}"
ComputeId(w) ==
    /\ threads[w].pc = "checked"
    /\ threads' = [threads EXCEPT ![w] =
          [pc |-> "named", req |-> threads[w].req,
           current_players |-> threads[w].current_players,
           found |-> threads[w].found,
           booking_id |-> new_booking_id(BOOKINGS)]]
    /\ UNCHANGED <<BOOKINGS, op, req, resp, pre, successes, gen>>

\* main.py:170-176: build the Booking, store it under its id, return it.
\* found is the players the ledger held for the tee time when the call
\* started; raced records that it holds another number now, id_raced that
\* the ledger's size is no longer the one the id was computed from.
Insert(w) ==
    /\ threads[w].pc = "named"
    /\ LET t       == threads[w]
           booking == Booking(t.booking_id, t.req)
       IN  /\ BOOKINGS' = dict_set(BOOKINGS, t.booking_id, booking)
           /\ threads' = [threads EXCEPT ![w] =
                 Finished(t.req, Returned(<<booking>>),
                          StoredPlayers(BOOKINGS, t.req.course_id,
                                        t.req.date_time) # t.found,
                          new_booking_id(BOOKINGS) # t.booking_id)]
    /\ successes' = successes + 1
    /\ UNCHANGED <<op, req, resp, pre, gen>>

NextConc ==
    \E w \in Workers : StartCall(w) \/ SumNext(w) \/ ComputeId(w) \/ Insert(w)

\* the calls start on the empty ledger or on one that an earlier call left
InitConc ==
    /\ \E r \in {CreateBookingRequest(c, dt, p) :
                   c \in DOMAIN COURSES, dt \in ReqDateTimes, p \in Players} :
          BOOKINGS \in {<<>>, create_booking(<<>>, r).ledger}
    /\ op = "start"
    /\ req = <<>>
    /\ resp = Returned(<<>>)
    /\ pre = <<>>
    /\ successes = Len(BOOKINGS)
    /\ gen = NoGen
    /\ threads = NoThreads

SpecConc == InitConc /\ [][NextConc]_vars

----------------------------------------------------------------------------
(* Properties *)

IsCreate == op = "create_booking"

IsAvailability == op = "get_availability"

KnownReq == req.course_id \in DOMAIN COURSES

\* C1: in every ledger reached by create_booking calls run one at a time,
\* the players stored for any one (course_id, date_time) sum to at most 4.
C1_Capacity ==
    \A c \in CourseIds, dt \in ReqDateTimes :
        StoredPlayers(BOOKINGS, c, dt) <= 4

\* a tee time filled to 4 by several bookings, with a refused call after it
C1_Witness ==
    /\ IsCreate /\ resp.status = 400
    /\ Len(BOOKINGS) >= 2
    /\ StoredPlayers(BOOKINGS, req.course_id, req.date_time) = 4

\* C2: a create_booking for a known course whose players would take the tee
\* time above 4 is refused with HTTP 400 and stores nothing: the ledger is
\* the one the call found, so the next id is the one it would have been.
C2_Refused ==
    (IsCreate /\ KnownReq
       /\ StoredPlayers(pre, req.course_id, req.date_time) + req.players > 4)
    => /\ resp.raised = "HTTPException"
       /\ resp.status = 400
       /\ resp.body = <<>>
       /\ BOOKINGS = pre
       /\ Len(BOOKINGS) = successes

\* a one-player request refused at a tee time that already holds 4
C2_Witness ==
    /\ IsCreate /\ KnownReq /\ resp.status = 400
    /\ req.players = 1
    /\ StoredPlayers(pre, req.course_id, req.date_time) = 4
    /\ BOOKINGS = pre

\* C3: a create_booking for a known course with players in 1..4 that fits
\* (stored players + requested players <= 4) succeeds; the ledger gains
\* exactly one booking with the request's course_id, date_time and players,
\* the earlier bookings are unchanged and the returned booking is the stored
\* one.
C3_Accepted ==
    (IsCreate /\ KnownReq /\ req.players \in 1..4
       /\ StoredPlayers(pre, req.course_id, req.date_time) + req.players <= 4)
    => /\ resp.raised = "" /\ resp.status = 200
       /\ Len(resp.body) = 1
       /\ Len(BOOKINGS) = Len(pre) + 1
       /\ \A i \in 1..Len(pre) : BOOKINGS[i] = pre[i]
       /\ BOOKINGS[Len(BOOKINGS)].course_id = req.course_id
       /\ BOOKINGS[Len(BOOKINGS)].date_time = req.date_time
       /\ BOOKINGS[Len(BOOKINGS)].players = req.players
       /\ resp.body[1] = BOOKINGS[Len(BOOKINGS)]
       /\ \A i \in 1..Len(BOOKINGS) :
             BOOKINGS[i].booking_id = resp.body[1].booking_id
                 => BOOKINGS[i] = resp.body[1]

\* the exact fit: two players join two players already stored
C3_Witness ==
    /\ IsCreate /\ resp.status = 200
    /\ req.players = 2
    /\ StoredPlayers(pre, req.course_id, req.date_time) = 2
    /\ StoredPlayers(BOOKINGS, req.course_id, req.date_time) = 4

\* C4: the n-th successful create_booking gets the id BOOK-n: the stored
\* ids are BOOK-1, BOOK-2, ... in creation order, pairwise distinct, and
\* the ledger holds as many bookings as calls succeeded.
C4_Ids ==
    /\ Len(BOOKINGS) = successes
    /\ \A i \in 1..Len(BOOKINGS) :
          BOOKINGS[i].booking_id = "BOOK-" \o int_str(i)
    /\ \A i, j \in 1..Len(BOOKINGS) :
          i # j => BOOKINGS[i].booking_id # BOOKINGS[j].booking_id
    /\ Len(BOOKINGS) >= 1 => BOOKINGS[1].booking_id = "BOOK-1"
    /\ Len(BOOKINGS) >= 2 => BOOKINGS[2].booking_id = "BOOK-2"
    /\ (IsCreate /\ resp.status = 200)
          => resp.body[1].booking_id = "BOOK-" \o int_str(successes)

\* a refused call after two successful ones
C4_Witness ==
    /\ IsCreate /\ resp.status = 400
    /\ successes >= 2
    /\ BOOKINGS[2].booking_id = "BOOK-2"

\* the hour filter of a time window as the specification words it
InWindow(dt, w) ==
    CASE w = "all"       -> TRUE
      [] w = "morning"   -> dt.minute < 12 * 60
      [] w = "afternoon" -> 12 * 60 <= dt.minute /\ dt.minute < 17 * 60
      [] w = "evening"   -> dt.minute >= 17 * 60
      [] OTHER           -> FALSE

\* the tee sheet of a course on a date
TeeSheet(c, d) == _generate_slots_for_date(COURSES[c], d).value

\* the times a response lists in the order it lists them
Times(r) == r.body[1].available_times

Listed(r) == r.raised = "" /\ r.status = 200 /\ Len(r.body) = 1

\* C5: for a known course, a valid time_window and a date without bookings
\* of that course, availability with players in 1..4 returns the generated
\* slots of that date restricted to the window's hours.
C5_EmptyDate ==
    (IsAvailability /\ KnownReq /\ req.time_window \in ValidTimeWindows
       /\ req.players \in 1..4
       /\ \A i \in 1..Len(pre) :
             ~ (pre[i].course_id = req.course_id
                  /\ pre[i].date_time.date = req.date))
    => /\ Listed(resp)
       /\ Times(resp) = SelectSeq(TeeSheet(req.course_id, req.date),
                                  LAMBDA dt : InWindow(dt, req.time_window))

\* C6: availability with time_window 'all' for a known course lists a
\* generated slot of the date iff the players stored at that exact datetime
\* plus the requested players are at most 4.
C6_Fits ==
    (IsAvailability /\ KnownReq /\ req.time_window = "all")
    => /\ Listed(resp)
       /\ LET sheet == TeeSheet(req.course_id, req.date)
          IN  \A k \in 1..Len(sheet) :
                 (\E j \in 1..Len(Times(resp)) : Times(resp)[j] = sheet[k])
                   <=> StoredPlayers(pre, req.course_id, sheet[k])
                           + req.players <= 4

\* C7: availability and create_booking on a course_id that is not in the
\* course table raise HTTP 404 whatever the other arguments are, and leave
\* the ledger as it was.
C7_NotFound ==
    ((IsCreate \/ IsAvailability) /\ ~ KnownReq)
    => /\ resp.raised = "HTTPException"
       /\ resp.status = 404
       /\ resp.body = <<>>
       /\ BOOKINGS = pre

\* an unknown course asked with an invalid time_window on a ledger that
\* holds bookings
C7_Witness ==
    /\ IsAvailability /\ req.course_id = "unknown"
    /\ req.time_window = "night"
    /\ resp.status = 404
    /\ Len(BOOKINGS) >= 1

\* C8: availability for a known course with a time_window other than all,
\* morning, afternoon, evening raises HTTP 400 and lists nothing.
C8_InvalidWindow ==
    (IsAvailability /\ KnownReq /\ req.time_window \notin ValidTimeWindows)
    => /\ resp.raised = "HTTPException"
       /\ resp.status = 400
       /\ resp.body = <<>>

\* C9: for a known course the morning, afternoon and evening results are
\* the sub-sequences of the 'all' result with hour < 12, 12..16 and >= 17,
\* so they are pairwise disjoint and cover the 'all' result.
C9_Windows ==
    (IsAvailability /\ KnownReq /\ req.time_window \in ValidTimeWindows)
    => LET all == get_availability(pre, req.course_id, req.date, "all",
                                   req.players)
       IN  /\ Listed(all) /\ Listed(resp)
           /\ Times(resp) = SelectSeq(Times(all),
                                      LAMBDA dt : InWindow(dt, req.time_window))

\* C10: for a course with first_time <= last_time and interval > 0 the
\* generated slots start at the opening time, advance by exactly the
\* interval, never pass the closing time, stop only when one more interval
\* would pass it, and hold the closing time exactly when it lies a whole
\* number of intervals after the opening (sterling_hills: 07:00, 07:08, ...,
\* 17:00).
C10_Slots ==
    (gen.pc = "done" /\ gen.course.first_time <= gen.course.last_time
       /\ gen.course.interval_minutes > 0)
    => LET s == gen.slots
           n == Len(s)
           f == gen.course.first_time
           l == gen.course.last_time
           i == gen.course.interval_minutes
       IN  /\ gen.raised = ""
           /\ n >= 1
           /\ s[1] = [date |-> gen.date, minute |-> f]
           /\ \A k \in 1..n : /\ s[k].date = gen.date
                               /\ s[k].minute = f + (k - 1) * i
                               /\ s[k].minute <= l
           /\ \A k \in 1..(n - 1) : s[k].minute < s[k + 1].minute
           /\ s[n].minute + i > l
           /\ (\E k \in 1..n : s[k].minute = l) <=> ((l - f) % i = 0)
           /\ gen.course = COURSES["sterling_hills"]
                 => /\ n = 76
                    /\ s[2].minute = 7 * 60 + 8
                    /\ s[n].minute = 17 * 60

\* the bookings of one course in a ledger, in the ledger's order
RECURSIVE OfCourse(_, _)
OfCourse(ledger, c) ==
    IF ledger = <<>> THEN <<>>
    ELSE (IF Head(ledger).course_id = c THEN <<Head(ledger)>> ELSE <<>>)
         \o OfCourse(Tail(ledger), c)

IsList == op = "list_bookings"

\* C11: list_bookings without a course filter returns every stored booking
\* once, in insertion order; with a course_id it returns the stored bookings
\* of that course in the same relative order and nothing else.
C11_Listing ==
    IsList =>
       /\ resp.raised = "" /\ resp.status = 200
       /\ req.course_id = "" => resp.body = BOOKINGS
       /\ req.course_id # "" => resp.body = OfCourse(BOOKINGS, req.course_id)
       /\ req.course_id # "" =>
             \A i \in 1..Len(resp.body) : resp.body[i].course_id = req.course_id

\* a filter that matches nothing on a ledger that holds three bookings
C11_Witness ==
    /\ IsList /\ req.course_id = "unknown"
    /\ Len(BOOKINGS) = 3
    /\ resp.body = <<>>

\* C13: a booking create_booking stored stays in the ledger with the same
\* id, course_id, date_time and players through every later availability,
\* create_booking and list_bookings call run one at a time.
C13_Kept ==
    [][\A i \in 1..Len(BOOKINGS) :
          \E j \in 1..Len(BOOKINGS') : BOOKINGS'[j] = BOOKINGS[i]]_vars

\* a third booking stored after two others, both still in place
C13_Witness ==
    /\ IsCreate /\ resp.status = 200
    /\ Len(pre) = 2 /\ Len(BOOKINGS) = 3
    /\ BOOKINGS[1] = pre[1] /\ BOOKINGS[2] = pre[2]
    /\ BOOKINGS[3].players # BOOKINGS[1].players

\* C14: get_availability and list_bookings leave the ledger as it is,
\* whether they return or raise, and an availability call repeated with the
\* same arguments right after itself gives the same outcome.
C14_ReadOnly ==
    [][/\ (op' \in {"get_availability", "list_bookings"})
            => BOOKINGS' = BOOKINGS
       /\ (op = "get_availability" /\ op' = "get_availability" /\ req' = req)
            => resp' = resp]_vars

\* an availability call for the configured course on a ledger of three
\* bookings, which it left as they were
C14_Witness ==
    /\ IsAvailability /\ KnownReq
    /\ Len(BOOKINGS) = 3 /\ BOOKINGS = pre

\* C16: a course whose first_time is later than its last_time gets no slots
\* on any date.
C16_Empty ==
    (gen.pc = "done" /\ gen.course.first_time > gen.course.last_time)
    => gen.raised = "" /\ gen.slots = <<>>

\* the generator has run on a course that opens at 17:00 and closes at 07:00
C16_Witness ==
    /\ gen.pc = "done"
    /\ gen.course.first_time = 17 * 60 /\ gen.course.last_time = 7 * 60
    /\ gen.date = DateMax
    /\ gen.raised = "" /\ gen.slots = <<>>

\* C17: for a known course and players p in 1..4, a generated slot is in
\* availability(course, date, 'all', p) iff create_booking(course, slot, p)
\* issued on the same ledger would succeed.
C17_Agree ==
    (IsAvailability /\ KnownReq /\ req.time_window = "all")
    => /\ Listed(resp)
       /\ LET sheet == TeeSheet(req.course_id, req.date)
          IN  \A k \in 1..Len(sheet) :
                 (\E j \in 1..Len(Times(resp)) : Times(resp)[j] = sheet[k])
                   <=> create_booking(pre,
                          CreateBookingRequest(req.course_id, sheet[k],
                                               req.players)).resp.status = 200

\* C18: a create_booking call can only shrink availability: for fixed
\* arguments the result after it is the result before it without, at most,
\* the slot that was booked.
C18_Shrinks ==
    (IsCreate /\ KnownReq)
    => \A d \in Dates, w \in ValidTimeWindows, p \in Players :
          LET before == get_availability(pre, req.course_id, d, w, p)
              after  == get_availability(BOOKINGS, req.course_id, d, w, p)
              In(x, t) == \E j \in 1..Len(t) : t[j] = x
          IN  /\ Listed(before) /\ Listed(after)
              /\ Times(after) = SelectSeq(Times(before),
                                          LAMBDA x : In(x, Times(after)))
              /\ \A k \in 1..Len(Times(before)) :
                    ~ In(Times(before)[k], Times(after))
                       => /\ resp.status = 200
                          /\ Times(before)[k] = req.date_time

\* dt is one of the slots the generator produces for course c on dt's date
OnSchedule(c, dt) ==
    LET sheet == TeeSheet(c, dt.date)
    IN  \E k \in 1..Len(sheet) : sheet[k] = dt

\* C15 as claimed: every stored booking's date_time is a generated slot of
\* its course on that date.
C15_OnSchedule ==
    \A i \in 1..Len(BOOKINGS) :
        OnSchedule(BOOKINGS[i].course_id, BOOKINGS[i].date_time)

\* C15 as amended: every stored booking's date_time is the date_time its
\* request carried, unchanged, and create_booking refuses a request for a
\* known course only for capacity, never for its date_time: a request
\* between two slots or after closing is stored like any other.
C15_AsRequested ==
    /\ \A i \in 1..Len(BOOKINGS) : BOOKINGS[i].date_time \in AnyDateTimes
    /\ (IsCreate /\ resp.status = 200)
         => /\ BOOKINGS[Len(BOOKINGS)].date_time = req.date_time
            /\ resp.body[1].date_time = req.date_time
    /\ (IsCreate /\ KnownReq /\ resp.status # 200)
         => StoredPlayers(pre, req.course_id, req.date_time) + req.players > 4

\* a booking at 07:03, between the 07:00 and 07:08 slots, has been stored
C15_Witness ==
    /\ IsCreate /\ resp.status = 200
    /\ req.date_time = combine(1, 7 * 60 + 3)
    /\ BOOKINGS[Len(BOOKINGS)].date_time = combine(1, 7 * 60 + 3)
    /\ ~ OnSchedule(req.course_id, req.date_time)

DoneOk(w) == threads[w].pc = "done" /\ threads[w].resp.status = 200

Overbooked ==
    \E c \in CourseIds, dt \in ReqDateTimes : StoredPlayers(BOOKINGS, c, dt) > 4

\* C12: without a lock a tee time can come to hold more than 4 players, and
\* only through the race: whenever one does, some call stored its booking
\* after the players of its tee time had changed since the call read them.
C12_Race ==
    Overbooked => \E w \in Workers : DoneOk(w) /\ threads[w].raced

\* two calls for the same tee time both passed the check before either
\* stored, and both stored: 5 or more players in a slot of 4
C12_Witness ==
    /\ Overbooked
    /\ DoneOk(1) /\ DoneOk(2)
    /\ threads[1].req.date_time = threads[2].req.date_time
    /\ threads[1].req.players + threads[2].req.players > 4
    /\ StoredPlayers(BOOKINGS, threads[1].req.course_id,
                      threads[1].req.date_time)
          = threads[1].req.players + threads[2].req.players

\* C19: under interleaved calls the ledger still holds one booking per id,
\* so two calls that were returned the same booking_id share one entry: the
\* ledger holds the booking of one of them only, the later insert having
\* found a ledger that had grown since its id was computed; the ledger never
\* holds more bookings than calls succeeded.
C19_SharedId ==
    /\ \A i, j \in 1..Len(BOOKINGS) :
          i # j => BOOKINGS[i].booking_id # BOOKINGS[j].booking_id
    /\ Len(BOOKINGS) <= successes
    /\ \A v, w \in Workers :
          (v # w /\ DoneOk(v) /\ DoneOk(w)
             /\ threads[v].resp.body[1].booking_id
                  = threads[w].resp.body[1].booking_id)
          => /\ threads[v].id_raced \/ threads[w].id_raced
             /\ \A i \in 1..Len(BOOKINGS) :
                   BOOKINGS[i].booking_id = threads[v].resp.body[1].booking_id
                     => BOOKINGS[i] \in {threads[u].resp.body[1] :
                                           u \in {x \in Workers : DoneOk(x)}}

\* both calls were returned BOOK-1 for different bookings and the ledger
\* holds one booking only, the second call's
C19_Witness ==
    /\ DoneOk(1) /\ DoneOk(2)
    /\ threads[1].resp.body[1].booking_id = "BOOK-1"
    /\ threads[2].resp.body[1].booking_id = "BOOK-1"
    /\ threads[1].resp.body[1] # threads[2].resp.body[1]
    /\ successes = 2
    /\ BOOKINGS = <<threads[2].resp.body[1]>>

====
